---- MODULE Spec2Model ----
(***************************************************************************)
(* serializer_dumps of drf_serializer_dumps/decorators.py: the two         *)
(* module-level samples (_uuid, _now), the per-call type table, the        *)
(* recursive field walk and the JSON round trip of its result.             *)
(*                                                                         *)
(* Python values are pairs <<type name, payload>>; a raised exception is   *)
(* the pair <<"raise", exception name>>.                                   *)
(***************************************************************************)
EXTENDS Integers, Sequences, FiniteSets, TLC

VARIABLES
    _uuid,              \* module global: the cached sample identifier
    _now,               \* module global: the cached sample timestamp
    clock,              \* what timezone.now() reads
    klass,              \* arguments of the latest call of serializer_dumps
    exclude_fields,
    renew_type_value,
    extend_type_map,
    type_mapping,       \* the type table the latest call built
    result,             \* what the latest call returned (or raised)
    stdout              \* the diagnostics the latest call printed

vars == <<_uuid, _now, clock, klass, exclude_fields, renew_type_value,
          extend_type_map, type_mapping, result, stdout>>

-----------------------------------------------------------------------------
(* Bounds *)

\* uuid4() draws from 1..NumUuids
NumUuids == 2
\* the clock runs from 0 to MaxClock
MaxClock == 2
\* clock ticks per calendar day: the date of instant c is c \div TicksPerDay
TicksPerDay == 2
\* the interpreter's recursion limit, counted in nested walks
RecursionLimit == 5

-----------------------------------------------------------------------------
(* Python values *)

PyNone == <<"NoneType", 0>>
StrV(s) == <<"str", s>>
IntV(i) == <<"int", i>>
FloatV(i) == <<"float", i>>
BoolV(b) == <<"bool", b>>
BytesV(s) == <<"bytes", s>>
UuidV(u) == <<"UUID", u>>
DateTimeV(c) == <<"datetime", c>>
DateV(d) == <<"date", d>>
TimeV(t) == <<"time", t>>
TimedeltaV(s) == <<"timedelta", s>>
DictV(f) == <<"dict", f>>
ListV(s) == <<"list", s>>
EmptyDict == DictV(<<>>)
Raise(e) == <<"raise", e>>

IsRaise(v) == v[1] = "raise"
IsNumber(v) == v[1] \in {"int", "float", "bool"}
Num(v) == IF v[1] = "bool" THEN (IF v[2] THEN 1 ELSE 0) ELSE v[2]

\* datetime.date() and datetime.time() of an instant
DateOf(c) == DateV(c \div TicksPerDay)
TimeOf(c) == TimeV(c % TicksPerDay)

\* a == b of Python: numbers compare by value across int, float and bool
PyEq(a, b) ==
    IF IsNumber(a) /\ IsNumber(b) THEN Num(a) = Num(b) ELSE a = b

\* hash(v) raises TypeError for a dict or a list
Unhashable(v) == v[1] \in {"dict", "list"}

\* bool(v)
Truthy(v) ==
    CASE v[1] = "NoneType" -> FALSE
      [] IsNumber(v) -> Num(v) # 0
      [] v[1] \in {"str", "bytes"} -> v[2] # ""
      [] v[1] = "timedelta" -> v[2] # 0
      [] v[1] = "dict" -> v[2] # <<>>
      [] v[1] = "list" -> v[2] # <<>>
      [] OTHER -> TRUE

\* isoformat() of a datetime (DRF writes +00:00 as Z), a date, a time
IsoDate(d) == "D" \o ToString(d)
IsoTime(t) == "T" \o ToString(t)
IsoDateTimeZ(c) == IsoDate(c \div TicksPerDay) \o IsoTime(c % TicksPerDay) \o "Z"

\* str(v)
PyStr(v) ==
    CASE v[1] = "str" -> v[2]
      [] v[1] = "int" -> ToString(v[2])
      [] v[1] = "float" -> ToString(v[2]) \o ".0"
      [] v[1] = "bool" -> IF v[2] THEN "True" ELSE "False"
      [] v[1] = "NoneType" -> "None"
      [] v[1] = "bytes" -> "b'" \o v[2] \o "'"
      [] v[1] = "UUID" -> "uuid-" \o ToString(v[2])
      [] v[1] = "datetime" ->
            IsoDate(v[2] \div TicksPerDay) \o " " \o ToString(v[2] % TicksPerDay) \o "+00:00"
      [] v[1] = "date" -> IsoDate(v[2])
      [] v[1] = "time" -> IsoTime(v[2])
      [] v[1] = "timedelta" -> "0:00:0" \o ToString(v[2])
      [] OTHER -> "{}"

-----------------------------------------------------------------------------
(* The type table *)

\* the keys of field_type_mapping, in the order the dict literal lists them
FieldKinds ==
    <<"ChoiceField", "CharField", "FloatField", "BooleanField", "IntegerField",
      "UUIDField", "DateTimeField", "DateField", "TimeField", "DurationField">>

field_type_mapping(u, n) ==
    ("ChoiceField" :> StrV("string")) @@ ("CharField" :> StrV("string")) @@
    ("FloatField" :> FloatV(1)) @@ ("BooleanField" :> BoolV(FALSE)) @@
    ("IntegerField" :> IntV(1)) @@ ("UUIDField" :> UuidV(u)) @@
    ("DateTimeField" :> DateTimeV(n)) @@ ("DateField" :> DateOf(n)) @@
    ("TimeField" :> TimeOf(n)) @@ ("DurationField" :> TimedeltaV(5))

\* the entries type_mapping adds to field_type_mapping
BaseTypes(u, n) ==
    ("OpenApiTypes.STR" :> StrV("string")) @@ ("OpenApiTypes.DOUBLE" :> FloatV(1)) @@
    ("OpenApiTypes.BOOL" :> BoolV(FALSE)) @@ ("OpenApiTypes.BINARY" :> BytesV("string")) @@
    ("OpenApiTypes.INT" :> IntV(1)) @@ ("OpenApiTypes.UUID" :> UuidV(u)) @@
    ("OpenApiTypes.DATETIME" :> DateTimeV(n)) @@ ("OpenApiTypes.DATE" :> DateOf(n)) @@
    ("OpenApiTypes.TIME" :> TimeOf(n)) @@ ("OpenApiTypes.DURATION" :> TimedeltaV(5)) @@
    ("OpenApiTypes.OBJECT" :> EmptyDict) @@ ("OpenApiTypes.ANY" :> EmptyDict) @@
    ("OpenApiTypes.NONE" :> PyNone) @@
    ("str" :> StrV("string")) @@ ("float" :> FloatV(1)) @@ ("bool" :> BoolV(FALSE)) @@
    ("bytes" :> BytesV("string")) @@ ("int" :> IntV(1)) @@ ("UUID" :> UuidV(u)) @@
    ("datetime" :> DateTimeV(n)) @@ ("date" :> DateOf(n)) @@ ("time" :> TimeOf(n)) @@
    ("timedelta" :> TimedeltaV(5)) @@ ("dict" :> EmptyDict) @@ ("Dict" :> EmptyDict) @@
    ("Any" :> EmptyDict) @@ ("None" :> PyNone)

\* {**a, **b}: b's entries win
Merge(a, b) == b @@ a

\* the defaults alone
DefaultTypeMapping(u, n) == Merge(field_type_mapping(u, n), BaseTypes(u, n))

\* mutant: the table is kept between calls and updated in place
TypeMappingPersisted(u, n, ext) ==
    Merge(IF type_mapping = <<>> THEN DefaultTypeMapping(u, n) ELSE type_mapping, ext)

\* the dict literal of the call: the defaults, then **extend_type_map
TypeMapping(u, n, ext) == Merge(DefaultTypeMapping(u, n), ext)

\* d.get(key)
Get(d, key) == IF key \in DOMAIN d THEN d[key] ELSE PyNone

\* reversed_field_type_mapping.get(v): the dict comprehension keeps, for equal
\* keys, the field of the last item; "None" when no key equals v
RevMatches(u, n, v) ==
    {i \in 1..Len(FieldKinds) : PyEq(field_type_mapping(u, n)[FieldKinds[i]], v)}

reversed_field_type_mapping(u, n, v) ==
    LET m == RevMatches(u, n, v)
    IN  IF m = {} THEN "None"
        ELSE FieldKinds[CHOOSE i \in m : \A j \in m : j <= i]

many_annotations == {"list", "tuple", "set", "List", "Tuple", "Set"}

-----------------------------------------------------------------------------
(* to_representation of the rest_framework field classes the walk instantiates *)

\* IntegerField: int(value). Every text of the model is non-numeric.
ToInt(v) ==
    CASE IsNumber(v) -> IntV(Num(v))
      [] v[1] \in {"str", "bytes"} -> Raise("ValueError")
      [] OTHER -> Raise("TypeError")

\* FloatField: float(value)
ToFloat(v) ==
    CASE IsNumber(v) -> FloatV(Num(v))
      [] v[1] \in {"str", "bytes"} -> Raise("ValueError")
      [] OTHER -> Raise("TypeError")

\* BooleanField: TRUE_VALUES, FALSE_VALUES, then bool(value)
ToBool(v) ==
    CASE Unhashable(v) -> Raise("TypeError")
      [] IsNumber(v) /\ Num(v) = 1 -> BoolV(TRUE)
      [] IsNumber(v) /\ Num(v) = 0 -> BoolV(FALSE)
      [] v[1] = "str" /\ v[2] \in {"true", "1", "yes", "on", "t", "y"} -> BoolV(TRUE)
      [] v[1] = "str" /\ v[2] \in {"false", "0", "no", "off", "f", "n"} -> BoolV(FALSE)
      [] OTHER -> BoolV(Truthy(v))

\* DateTimeField: a falsy value is None, a text is kept, a datetime is ISO 8601
ToDateTime(v) ==
    CASE ~Truthy(v) -> PyNone
      [] v[1] = "str" -> v
      [] v[1] = "datetime" -> StrV(IsoDateTimeZ(v[2]))
      [] OTHER -> Raise("AttributeError")

\* DateField: as DateTimeField, and asserts the value is no datetime
ToDate(v) ==
    CASE ~Truthy(v) -> PyNone
      [] v[1] = "str" -> v
      [] v[1] = "datetime" -> Raise("AssertionError")
      [] v[1] = "date" -> StrV(IsoDate(v[2]))
      [] v[1] = "time" -> StrV(IsoTime(v[2]))
      [] OTHER -> Raise("AttributeError")

\* TimeField: None and "" are None; otherwise as DateField
ToTime(v) ==
    CASE Unhashable(v) -> Raise("AttributeError")
      [] v = PyNone \/ v = StrV("") -> PyNone
      [] v[1] = "str" -> v
      [] v[1] = "datetime" -> Raise("AssertionError")
      [] v[1] = "date" -> StrV(IsoDate(v[2]))
      [] v[1] = "time" -> StrV(IsoTime(v[2]))
      [] OTHER -> Raise("AttributeError")

\* DurationField: duration_string(value)
ToDuration(v) ==
    IF v[1] = "timedelta" THEN StrV("00:00:0" \o ToString(v[2]))
    ELSE Raise("AttributeError")

\* cls(**kwargs).to_representation(v), for the field classes of the model.
\* RelatedField() fails its queryset assertion; a mixin has no to_representation.
to_representation(cls, v) ==
    CASE cls \in {"CharField", "EmailField", "UUIDField"} -> StrV(PyStr(v))
      [] cls = "ChoiceField" -> v
      [] cls = "IntegerField" -> ToInt(v)
      [] cls = "FloatField" -> ToFloat(v)
      [] cls = "BooleanField" -> ToBool(v)
      [] cls = "DateTimeField" -> ToDateTime(v)
      [] cls = "DateField" -> ToDate(v)
      [] cls = "TimeField" -> ToTime(v)
      [] cls = "DurationField" -> ToDuration(v)
      [] cls = "JSONField" -> v
      [] cls = "FileField" -> IF Truthy(v) THEN Raise("AttributeError") ELSE PyNone
      [] cls = "RelatedField" -> Raise("AssertionError")
      [] OTHER -> Raise("AttributeError")

-----------------------------------------------------------------------------
(* json.loads(json.dumps(value, default=str)) *)

RECURSIVE JsonRoundTrip(_)
JsonRoundTrip(v) ==
    CASE v[1] \in {"str", "int", "float", "bool", "NoneType"} -> v
      [] v[1] = "dict" -> DictV([key \in DOMAIN v[2] |-> JsonRoundTrip(v[2][key])])
      [] v[1] = "list" -> ListV([i \in DOMAIN v[2] |-> JsonRoundTrip(v[2][i])])
      [] OTHER -> StrV(PyStr(v))

-----------------------------------------------------------------------------
(* The serializer classes the calls are made on *)

Absent == <<"absent">>                     \* no return annotation
Class(c) == <<"class", c>>                 \* -> c
Union(a, b) == <<"union", a, b>>           \* -> Union[a, b]; Optional[a] is Union[a, None]
Alias(origin, arg) == <<"alias", origin, arg>>   \* -> List[arg], list[arg], Literal[arg]

\* a declared field of a field class, or a nested serializer instance
Plain(name, cls) ==
    [name |-> name, kind |-> "Field", cls |-> cls, child |-> "-",
     oat |-> "None", ann |-> Absent]
\* child(many=True)
Many(name, child) ==
    [name |-> name, kind |-> "ListSerializer", cls |-> "ListSerializer", child |-> child,
     oat |-> "None", ann |-> Absent]
\* ListField(child=child())
ListField(name, child) ==
    [name |-> name, kind |-> "ListField", cls |-> "ListField", child |-> child,
     oat |-> "None", ann |-> Absent]
\* SerializerMethodField() with its accessor's @extend_schema_field type and return annotation
Method(name, oat, ann) ==
    [name |-> name, kind |-> "SerializerMethodField", cls |-> "SerializerMethodField",
     child |-> "-", oat |-> oat, ann |-> ann]

\* klass().get_fields(), in declaration order
Fields ==
    [PersonCars |->
        <<Plain("car_name", "CharField"), Plain("car_price", "IntegerField")>>,
     PersonHouse |->
        <<Plain("address", "CharField"), Plain("cfield", "ChoiceField")>>,
     PersonSerializer1 |->
        <<Plain("name", "CharField"), Plain("age", "IntegerField"),
          Plain("birthday", "DateTimeField"),
          Method("field_without_annotation", "None", Absent),
          Method("height", "None", Class("int")),
          Method("weight", "OpenApiTypes.INT", Absent),
          Many("cars", "PersonCars"),
          Method("cars2", "None", Alias("List", Class("PersonCars"))),
          Method("cars3", "None", Alias("list", Class("PersonCars"))),
          Plain("house", "PersonHouse")>>,
     PersonSerializer2 |->
        <<Plain("id", "IntegerField"), Plain("name", "CharField"),
          ListField("phones", "CharField")>>,
     EventSerializer |->
        <<Plain("uid", "UUIDField"), Plain("day", "DateField"), Plain("at", "TimeField"),
          Plain("took", "DurationField"), Plain("ratio", "FloatField"),
          Plain("done", "BooleanField"), Plain("email", "EmailField"),
          Plain("work_email", "WorkEmailField"), Plain("avatar", "ImageField"),
          Plain("meta", "JSONField"), Plain("name", "CharField"),
          ListField("stamps", "DateTimeField"),
          Method("score", "None", Class("float")),
          Method("started", "None", Class("datetime")),
          Method("token", "OpenApiTypes.UUID", Absent),
          Method("note", "None", Union(Class("str"), Class("NoneType"))),
          Method("blob", "None", Class("bytes")),
          Method("size", "OpenApiTypes.EMAIL", Class("int")),
          Method("label", "OpenApiTypes.STR", Class("int")),
          Method("nothing", "OpenApiTypes.NONE", Class("object")),
          Method("owner", "None", Union(Class("PersonCars"), Class("NoneType")))>>,
     TaggedSerializer |->
        <<Plain("label", "CharField")>>,
     PostSerializer |->
        <<Plain("name", "CharField"), Many("tags", "TaggedSerializer"),
          Plain("tag", "TaggedSerializer")>>,
     TreeSerializer |->
        <<Plain("name", "CharField"),
          Method("children", "None", Alias("List", Class("TreeSerializer")))>>,
     StatsSerializer |->
        <<Plain("name", "CharField"), Plain("owner", "PrimaryKeyRelatedField"),
          Method("counts", "None", Alias("List", Class("int"))),
          Method("mode", "None", Alias("Literal", Class("str"))),
          Method("extra", "OpenApiTypes.OBJECT", Absent),
          Method("raw", "OpenApiTypes.BINARY", Absent)>>]

SerializerClasses == DOMAIN Fields

\* type(x).__bases__[0] of the field classes and serializer classes of the model
Bases0 ==
    [c \in {"ChoiceField", "CharField", "FloatField", "BooleanField", "IntegerField",
            "UUIDField", "DateTimeField", "DateField", "TimeField", "DurationField",
            "JSONField", "FileField", "RelatedField"} |-> "Field"] @@
    ("EmailField" :> "CharField") @@ ("WorkEmailField" :> "EmailField") @@
    ("ImageField" :> "FileField") @@ ("PrimaryKeyRelatedField" :> "RelatedField") @@
    ("PersonSerializer2" :> "ModelSerializer") @@
    ("TaggedSerializer" :> "TaggedMixin") @@
    [c \in SerializerClasses |-> "Serializer"]

\* issubclass(c, serializers.Serializer)
IsSerializerClass(c) == c \in SerializerClasses \union {"Serializer", "ModelSerializer"}

\* isinstance(field_instance, serializers.ChoiceField)
IsChoiceField(cls) == cls = "ChoiceField" \/ Bases0[cls] = "ChoiceField"

-----------------------------------------------------------------------------
(* _get_type_value *)

\* typing.get_origin(annotation); "None" for a class
GetOrigin(annotation) == IF annotation[1] = "alias" THEN annotation[2] ELSE "None"

\* the key an annotation is looked up under: None when there is none, the class
\* itself, and a key no table holds for a parametrised alias
AnnKey(annotation) ==
    CASE annotation[1] = "absent" -> "None"
      [] annotation[1] = "class" -> annotation[2]
      [] OTHER -> "-"

\* annotation.__name__ (of an alias: its origin's, as Python 3.10 gives it)
AnnName(annotation) == IF annotation[1] = "class" THEN annotation[2] ELSE GetOrigin(annotation)

\* type(annotation).__name__
AnnTypeName(annotation) ==
    CASE annotation[1] = "absent" -> "NoneType"
      [] annotation[1] = "class" -> "type"
      [] OTHER -> "_GenericAlias"

\* mutant: the return annotation is looked up before the explicit type
AnnotationFirst(tm, field_instance) ==
    LET hint == field_instance.ann
        annotation == IF hint[1] = "union" THEN hint[2] ELSE hint
        declared == Get(tm, AnnKey(annotation))
        type_value == IF declared = PyNone THEN Get(tm, field_instance.oat) ELSE declared
    IN  <<type_value, annotation>>

\* <<type_value, annotation>> of a SerializerMethodField's accessor
_get_type_value(tm, field_instance) ==
    LET open_api_type == field_instance.oat
        hint == field_instance.ann
        annotation == IF hint[1] = "union" THEN hint[2] ELSE hint
        explicit == Get(tm, open_api_type)
        type_value == IF explicit = PyNone THEN Get(tm, AnnKey(annotation)) ELSE explicit
    IN  <<type_value, annotation>>

-----------------------------------------------------------------------------
(* _walk_fields_recursively *)

\* what a walk, or one field of it, gives: a value or a raised exception, and
\* the diagnostics printed on the way
Outcome(v, out) == [val |-> v, out |-> out]

UnknownAnnotation(name, field_name) == <<"unknown annotation", name, field_name>>
SetToNone(name, field_name) == <<"unknown annotation, set None", name, field_name>>
UnknownField(name, field_name) == <<"unknown field, set None", name, field_name>>

\* ctx: the call's closure variables [tm, u, n, ex] (type_mapping, the samples
\* reversed_field_type_mapping was built from, exclude_fields)
RECURSIVE _walk_fields_recursively(_, _, _)
RECURSIVE WalkFrom(_, _, _, _, _)
RECURSIVE FieldValue(_, _, _)

\* mutant: a nested walk starts with an empty exclusion list
NestedCtxNoExclude(ctx) == [ctx EXCEPT !.ex = {}]

\* the closure variables as a nested walk sees them: exclude_fields is passed on
\* unchanged (lines 207, 227, 251, 255)
NestedCtx(ctx) == ctx

\* [nested_dict] or nested_dict of a nested walk; a raise passes through
Nested(w, many) ==
    IF IsRaise(w.val) \/ ~many THEN w ELSE Outcome(ListV(<<w.val>>), w.out)

\* the branch of a field that is no SerializerMethodField (lines 213-232)
PlainValue(field_instance, ctx, depth) ==
    LET cls == field_instance.cls
        base_field_cls == Bases0[cls]
    IN  IF base_field_cls # "Field" /\ ~IsSerializerClass(base_field_cls)
        THEN Outcome(to_representation(base_field_cls, Get(ctx.tm, base_field_cls)), <<>>)
        ELSE IF cls \in SerializerClasses
        THEN _walk_fields_recursively(cls, NestedCtx(ctx), depth + 1)
        ELSE Outcome(to_representation(cls, Get(ctx.tm, cls)), <<>>)

\* the branch of a SerializerMethodField (lines 234-261)
MethodValue(field_instance, ctx, depth) ==
    LET tv == _get_type_value(ctx.tm, field_instance)
        type_value == tv[1]
        annotation == tv[2]
        field_name == field_instance.name
    IN  IF type_value # PyNone
        THEN IF Unhashable(type_value)
             THEN Outcome(Raise("TypeError"), <<>>)
             ELSE LET _field_instance == reversed_field_type_mapping(ctx.u, ctx.n, type_value)
                  IN  IF _field_instance # "None"
                      THEN Outcome(to_representation(_field_instance, type_value), <<>>)
                      ELSE IF annotation = Absent
                      THEN Outcome(Raise("AttributeError"), <<>>)
                      ELSE Outcome(type_value,
                                   <<UnknownAnnotation(AnnName(annotation), field_name)>>)
        ELSE IF annotation # Absent /\ GetOrigin(annotation) \in many_annotations
        THEN Nested(_walk_fields_recursively(annotation[3][2], NestedCtx(ctx), depth + 1), TRUE)
        ELSE IF annotation # Absent /\ annotation[1] # "class"
        THEN Outcome(Raise("TypeError"), <<>>)
        ELSE IF annotation # Absent /\ IsSerializerClass(annotation[2])
        THEN _walk_fields_recursively(annotation[2], NestedCtx(ctx), depth + 1)
        ELSE Outcome(PyNone, <<SetToNone(AnnTypeName(annotation), field_name)>>)

\* one pass of the loop body (lines 206-267)
FieldValue(field_instance, ctx, depth) ==
    IF field_instance.kind = "ListSerializer"
    THEN Nested(_walk_fields_recursively(field_instance.child, NestedCtx(ctx), depth + 1), TRUE)
    ELSE IF field_instance.kind = "ListField"
    THEN Outcome(ListV(<<Get(ctx.tm, field_instance.child)>>), <<>>)
    ELSE IF field_instance.kind # "SerializerMethodField"
    THEN PlainValue(field_instance, ctx, depth)
    ELSE IF field_instance.kind = "SerializerMethodField"
    THEN MethodValue(field_instance, ctx, depth)
    ELSE Outcome(PyNone, <<UnknownField(field_instance.cls, field_instance.name)>>)

\* the loop over fields.items() from the i-th field on; acc is example_val and
\* what was printed so far
WalkFrom(cls, i, ctx, depth, acc) ==
    IF i > Len(Fields[cls]) THEN acc
    ELSE LET field_instance == Fields[cls][i]
         IN  IF field_instance.name \in ctx.ex
             THEN WalkFrom(cls, i + 1, ctx, depth, acc)
             ELSE LET r == FieldValue(field_instance, ctx, depth)
                  IN  IF IsRaise(r.val)
                      THEN Outcome(r.val, acc.out \o r.out)
                      ELSE WalkFrom(cls, i + 1, ctx, depth,
                               Outcome(DictV((field_instance.name :> r.val) @@ acc.val[2]),
                                       acc.out \o r.out))

\* a walk nested deeper than the interpreter allows raises RecursionError;
\* klass() of a class that is no serializer has no get_fields
_walk_fields_recursively(cls, ctx, depth) ==
    IF depth > RecursionLimit THEN Outcome(Raise("RecursionError"), <<>>)
    ELSE IF cls \notin SerializerClasses THEN Outcome(Raise("AttributeError"), <<>>)
    ELSE WalkFrom(cls, 1, ctx, depth, Outcome(EmptyDict, <<>>))

\* the return statement: the walk from klass, through the JSON round trip
Dumps(cls, ex, tm, u, n) ==
    LET w == _walk_fields_recursively(cls, [tm |-> tm, u |-> u, n |-> n, ex |-> ex], 1)
    IN  IF IsRaise(w.val) THEN w ELSE Outcome(JsonRoundTrip(w.val), w.out)

-----------------------------------------------------------------------------
(* The calls *)

\* the exclude_fields and extend_type_map arguments the calls draw from
ExcludeLists ==
    {{}, {"age", "car_price"}, {"name", "tag", "children", "owner", "counts"}}

ExtendTypeMaps ==
    {<<>>,
     ("CharField" :> StrV("text")),
     ("OpenApiTypes.EMAIL" :> StrV("string")) @@ ("int" :> IntV(7))}

\* The table and the walk of every call the model can make, tabulated: a call
\* looks its outcome up instead of walking again.
UUIDs == 1..NumUuids
Instants == 0..MaxClock

TypeMappings ==
    [u \in UUIDs, n \in Instants, ext \in ExtendTypeMaps |-> TypeMapping(u, n, ext)]

Walks ==
    [cls \in SerializerClasses, ex \in ExcludeLists, ext \in ExtendTypeMaps,
     u \in UUIDs, n \in Instants |-> Dumps(cls, ex, TypeMappings[u, n, ext], u, n)]

NoCall == <<"nocall", 0>>

\* mutants: the timestamp is never renewed; it is renewed by every call
RenewedNowNever(renew, old, now) == old
RenewedNowAlways(renew, old, now) == now

\* lines 106-110: the samples after the renew_type_value block
RenewedUuid(renew, old, fresh) == IF renew THEN fresh ELSE old
RenewedNow(renew, old, now) == IF renew THEN now ELSE old

Init ==
    /\ _uuid \in UUIDs
    /\ _now = 0
    /\ clock = 0
    /\ klass = "-"
    /\ exclude_fields = {}
    /\ renew_type_value = FALSE
    /\ extend_type_map = <<>>
    /\ type_mapping = <<>>
    /\ result = NoCall
    /\ stdout = <<>>

\* time passes between calls
Tick ==
    /\ clock < MaxClock
    /\ clock' = clock + 1
    /\ UNCHANGED <<_uuid, _now, klass, exclude_fields, renew_type_value,
                   extend_type_map, type_mapping, result, stdout>>

\* one call of serializer_dumps; fresh is what uuid4() would return
serializer_dumps(cls, ex, renew, ext, fresh) ==
    /\ _uuid' = RenewedUuid(renew, _uuid, fresh)
    /\ _now' = RenewedNow(renew, _now, clock)
    /\ type_mapping' = TypeMappings[_uuid', _now', ext]
    /\ LET r == Walks[cls, ex, ext, _uuid', _now']
       IN  /\ result' = r.val
           /\ stdout' = r.out
    /\ klass' = cls
    /\ exclude_fields' = ex
    /\ renew_type_value' = renew
    /\ extend_type_map' = ext
    /\ UNCHANGED clock

Next ==
    \/ Tick
    \/ \E cls \in SerializerClasses, ex \in ExcludeLists, renew \in BOOLEAN,
          ext \in ExtendTypeMaps, fresh \in UUIDs :
          /\ renew \/ fresh = _uuid
          /\ serializer_dumps(cls, ex, renew, ext, fresh)

Spec == Init /\ [][Next]_vars

-----------------------------------------------------------------------------
(* What the claims speak of *)

Called == klass # "-"
Returned == Called /\ ~IsRaise(result)

\* the fields of a class the loop does not skip, by position
Shown(cls, ex) == {i \in DOMAIN Fields[cls] : Fields[cls][i].name \notin ex}

\* the value the latest call returned under a top-level field name
Value(name) == result[2][name]

\* a diagnostic of the latest call names the field
Diagnosed(name) == \E i \in DOMAIN stdout : stdout[i][3] = name

IsPlain(f) == f.kind = "Field" /\ f.cls \notin SerializerClasses
IsComputed(f) == f.kind = "SerializerMethodField"
IsNested(f) == f.kind = "ListSerializer" \/ (f.kind = "Field" /\ f.cls \in SerializerClasses)
NestedClass(f) == IF f.kind = "ListSerializer" THEN f.child ELSE f.cls

\* the nearest class of cls's ancestry the latest call's table holds, or "None"
RECURSIVE PrimitiveKind(_)
PrimitiveKind(cls) ==
    IF cls \in DOMAIN type_mapping THEN cls
    ELSE IF cls \in DOMAIN Bases0 THEN PrimitiveKind(Bases0[cls])
    ELSE "None"

\* the closure variables of the latest call
Ctx == [tm |-> type_mapping, u |-> _uuid, n |-> _now, ex |-> exclude_fields]

\* a resolved value as a field of its kind would present it, or as it is
Rendered(v) ==
    LET kind == reversed_field_type_mapping(_uuid, _now, v)
    IN  IF kind # "None" THEN to_representation(kind, v) ELSE v

FirstArg(ann) == IF ann[1] = "union" THEN ann[2] ELSE ann

\* a step of serializer_dumps: the clock stands still
CallStep == clock' = clock /\ klass' # "-"
SameArguments ==
    klass' = klass /\ exclude_fields' = exclude_fields /\ extend_type_map' = extend_type_map

Max(S) == IF S = {} THEN 0 ELSE CHOOSE x \in S : \A y \in S : y <= x

-----------------------------------------------------------------------------
(* C1 *)

\* a computed field with no value in the table and no serializer to walk
Unresolved(f) ==
    LET tv == _get_type_value(type_mapping, f)
    IN  /\ tv[1] = PyNone
        /\ ~(tv[2][1] = "class" /\ tv[2][2] \in SerializerClasses)
        /\ ~(tv[2][1] = "alias" /\ tv[2][2] \in many_annotations
                /\ tv[2][3][1] = "class" /\ tv[2][3][2] \in SerializerClasses)

\* C1: no call raises; a plain field of a kind the table does not hold, and a
\* computed field that resolves to nothing, are null and have a diagnostic.
C1_NeverRaises ==
    Called =>
        /\ ~IsRaise(result)
        /\ \A i \in Shown(klass, exclude_fields) :
              LET f == Fields[klass][i]
              IN  ((IsPlain(f) /\ PrimitiveKind(f.cls) = "None")
                      \/ (IsComputed(f) /\ Unresolved(f)))
                  => (Value(f.name) = PyNone /\ Diagnosed(f.name))

-----------------------------------------------------------------------------
(* C2 *)

RECURSIVE Strip(_, _)
Strip(v, names) ==
    CASE v[1] = "dict" -> DictV([key \in DOMAIN v[2] \ names |-> Strip(v[2][key], names)])
      [] v[1] = "list" -> ListV([i \in DOMAIN v[2] |-> Strip(v[2][i], names)])
      [] OTHER -> v

RECURSIVE Keys(_)
Keys(v) ==
    CASE v[1] = "dict" -> DOMAIN v[2] \union UNION {Keys(v[2][key]) : key \in DOMAIN v[2]}
      [] v[1] = "list" -> UNION {Keys(v[2][i]) : i \in DOMAIN v[2]}
      [] OTHER -> {}

\* C2: a returned mapping holds no excluded name at any level, and is the
\* mapping returned with nothing excluded less the excluded names at every level.
C2_Exclusion ==
    Returned =>
        /\ Keys(result) \intersect exclude_fields = {}
        /\ LET full == Walks[klass, {}, extend_type_map, _uuid, _now].val
           IN  ~IsRaise(full) => result = Strip(full, exclude_fields)

\* a call returned with a name excluded that occurs at the top level and below
C2_Witness ==
    Returned /\ klass = "PersonSerializer1" /\ "car_price" \in exclude_fields

-----------------------------------------------------------------------------
(* C3 *)

\* every text a sample, or a part of the timestamp, is written as
SampleTexts ==
    {PyStr(UuidV(u)) : u \in UUIDs}
    \union {IsoDateTimeZ(n) : n \in Instants} \union {PyStr(DateTimeV(n)) : n \in Instants}
    \union {PyStr(DateOf(n)) : n \in Instants} \union {PyStr(TimeOf(n)) : n \in Instants}

\* a mapping with every such text blotted out
RECURSIVE Erase(_)
Erase(v) ==
    CASE v[1] = "dict" -> DictV([key \in DOMAIN v[2] |-> Erase(v[2][key])])
      [] v[1] = "list" -> ListV([i \in DOMAIN v[2] |-> Erase(v[2][i])])
      [] v[1] = "str" /\ v[2] \in SampleTexts -> StrV("*")
      [] OTHER -> v

\* the latest call renewed the samples and time has passed since; the step is
\* a renewing call with the same arguments, and both return
RenewedTwice ==
    /\ CallStep /\ SameArguments
    /\ renew_type_value /\ renew_type_value' /\ clock # _now
    /\ Returned /\ ~IsRaise(result')

\* the top-level fields of the three timestamp kinds
TimestampFields(cls, ex) ==
    {Fields[cls][i].name : i \in {j \in Shown(cls, ex) :
        Fields[cls][j].kind = "Field"
        /\ Fields[cls][j].cls \in {"DateTimeField", "DateField", "TimeField"}}}

\* the top-level datetime fields, when the table holds the default sample for them
DateTimeFields(cls, ex, ext) ==
    IF "DateTimeField" \in DOMAIN ext THEN {}
    ELSE {Fields[cls][i].name : i \in {j \in Shown(cls, ex) :
            Fields[cls][j].kind = "Field" /\ Fields[cls][j].cls = "DateTimeField"}}

\* C3 as stated: of two renewing calls a time gap apart, the timestamp fields
\* differ and every other field is equal.
C3_OnlyTimestampDiffers ==
    [][RenewedTwice =>
        \A name \in DOMAIN result[2] :
            IF name \in TimestampFields(klass, exclude_fields)
            THEN result'[2][name] # result[2][name]
            ELSE result'[2][name] = result[2][name]]_vars

\* C3 as amended: the two mappings are equal but for the texts of the samples,
\* and every datetime field differs.
C3_SamplesDiffer ==
    [][RenewedTwice =>
        /\ Erase(result') = Erase(result)
        /\ \A name \in DateTimeFields(klass, exclude_fields, extend_type_map) :
              result'[2][name] # result[2][name]]_vars

\* a renewing call on a class with a datetime field returned, and time has passed
C3_Witness ==
    /\ Returned /\ renew_type_value /\ clock # _now
    /\ DateTimeFields(klass, exclude_fields, extend_type_map) # {}

-----------------------------------------------------------------------------
(* C4 *)

\* the default table, and the walk of every call made without extend_type_map
\* from the defaults alone
DefaultTypeMappings == [u \in UUIDs, n \in Instants |-> DefaultTypeMapping(u, n)]

DefaultWalks ==
    [cls \in SerializerClasses, ex \in ExcludeLists, u \in UUIDs, n \in Instants |->
        Dumps(cls, ex, DefaultTypeMappings[u, n], u, n)]

\* C4: every call's table is the defaults under that call's entries; a call made
\* without entries after a call made with some uses the defaults alone and
\* returns what the defaults give.
C4_CallScoped ==
    /\ [](Called => type_mapping = Merge(DefaultTypeMappings[_uuid, _now], extend_type_map))
    /\ [][(CallStep /\ extend_type_map # <<>> /\ extend_type_map' = <<>>) =>
              /\ type_mapping' = DefaultTypeMappings[_uuid', _now']
              /\ result' = DefaultWalks[klass', exclude_fields', _uuid', _now'].val
              /\ stdout' = DefaultWalks[klass', exclude_fields', _uuid', _now'].out]_vars

\* a call made with an entry that overrides a default has returned
C4_Witness ==
    /\ Returned /\ "CharField" \in DOMAIN extend_type_map
    /\ type_mapping["CharField"] # DefaultTypeMappings[_uuid, _now]["CharField"]

-----------------------------------------------------------------------------
(* C5 *)

\* C5: the samples change only in a renewing call, whose table holds the new
\* ones; a call that does not renew, with the arguments of the call before it,
\* returns and prints the same.
C5_SamplesPersist ==
    [][/\ (_uuid' # _uuid \/ _now' # _now) => (CallStep /\ renew_type_value')
       /\ (CallStep /\ renew_type_value') =>
              /\ _now' = clock
              /\ "UUID" \notin DOMAIN extend_type_map' => type_mapping'["UUID"] = UuidV(_uuid')
              /\ "datetime" \notin DOMAIN extend_type_map' =>
                     type_mapping'["datetime"] = DateTimeV(_now')
       /\ (CallStep /\ ~renew_type_value' /\ Called /\ SameArguments) =>
              (result' = result /\ stdout' = stdout /\ type_mapping' = type_mapping)]_vars

\* a call that did not renew returned after an earlier call had renewed the timestamp
C5_Witness == Returned /\ ~renew_type_value /\ _now # 0 /\ clock # _now

-----------------------------------------------------------------------------
(* C6 *)

\* C6: a nested serializer field holds the walk of the nested class, in a list
\* of one when the relation is many and as it is otherwise.
C6_NestedSerializer ==
    Called =>
        \A i \in Shown(klass, exclude_fields) :
            LET f == Fields[klass][i]
                nested == _walk_fields_recursively(NestedClass(f), Ctx, 2)
                held == FieldValue(f, Ctx, 1)
            IN  (IsNested(f) /\ ~IsRaise(nested.val)) =>
                    /\ held.val = IF f.kind = "ListSerializer"
                                  THEN ListV(<<nested.val>>) ELSE nested.val
                    /\ Returned => Value(f.name) = JsonRoundTrip(held.val)

-----------------------------------------------------------------------------
(* C7 *)

\* C7: a plain field whose class is, or derives from, a kind of the table holds
\* that kind's sample as that kind presents it.
C7_PlainField ==
    Returned =>
        \A i \in Shown(klass, exclude_fields) :
            LET f == Fields[klass][i]
                kind == PrimitiveKind(f.cls)
            IN  (IsPlain(f) /\ kind # "None") =>
                    Value(f.name) = JsonRoundTrip(to_representation(kind, type_mapping[kind]))

-----------------------------------------------------------------------------
(* C8 *)

\* C8 as stated: an explicit type, when the accessor has one, alone decides a
\* computed field; the return annotation plays no part then.
C8_ExplicitAlone ==
    Returned =>
        \A i \in Shown(klass, exclude_fields) :
            LET f == Fields[klass][i]
                explicit == Get(type_mapping, f.oat)
            IN  (IsComputed(f) /\ f.oat # "None") =>
                    Value(f.name) = IF explicit # PyNone
                                    THEN JsonRoundTrip(Rendered(explicit)) ELSE PyNone

\* C8 as amended: an explicit type the table resolves decides a computed field;
\* otherwise the return annotation does, a union through its first argument.
C8_ResolutionOrder ==
    Returned =>
        \A i \in Shown(klass, exclude_fields) :
            LET f == Fields[klass][i]
                explicit == Get(type_mapping, f.oat)
                declared == Get(type_mapping, AnnKey(FirstArg(f.ann)))
            IN  IsComputed(f) =>
                    /\ explicit # PyNone => Value(f.name) = JsonRoundTrip(Rendered(explicit))
                    /\ (explicit = PyNone /\ declared # PyNone) =>
                           Value(f.name) = JsonRoundTrip(Rendered(declared))

\* a call returned for a class with computed fields that have an explicit type
\* and a return annotation, and one with a union annotation
C8_Witness ==
    /\ Returned /\ klass = "EventSerializer"
    /\ {"label", "size", "note"} \subseteq DOMAIN result[2]

-----------------------------------------------------------------------------
(* C9 *)

\* the kinds whose sample is the value, type and all
KindsOf(v) ==
    {FieldKinds[j] : j \in {k \in DOMAIN FieldKinds :
        field_type_mapping(_uuid, _now)[FieldKinds[k]] = v}}

\* C9: a computed field resolved to the sample of a kind holds what a plain
\* field of that kind holds; resolved to the sample of no kind, it holds the
\* value as it is and has a diagnostic.
C9_ReRendered ==
    Returned =>
        \A i \in Shown(klass, exclude_fields) :
            LET f == Fields[klass][i]
                type_value == _get_type_value(type_mapping, f)[1]
            IN  (IsComputed(f) /\ type_value # PyNone) =>
                    /\ \A kind \in KindsOf(type_value) :
                          Value(f.name) = JsonRoundTrip(to_representation(kind, type_value))
                    /\ KindsOf(type_value) = {} =>
                          (Value(f.name) = JsonRoundTrip(type_value) /\ Diagnosed(f.name))

-----------------------------------------------------------------------------
(* C10 *)

\* the serializer classes a class's fields lead to
Refs(cls) ==
    {NestedClass(Fields[cls][i]) : i \in {j \in DOMAIN Fields[cls] : IsNested(Fields[cls][j])}}
    \union
    {c \in SerializerClasses : \E i \in DOMAIN Fields[cls] :
        LET f == Fields[cls][i]
            a == FirstArg(f.ann)
        IN  IsComputed(f) /\ (a = Class(c) \/ (a[1] = "alias" /\ a[3] = Class(c)))}

RECURSIVE ReachFrom(_, _)
ReachFrom(S, k) ==
    IF k = 0 THEN S ELSE ReachFrom(S \union UNION {Refs(c) : c \in S}, k - 1)

Reachable(cls) == ReachFrom({cls}, Cardinality(SerializerClasses))

\* how deep the mappings of a value nest
RECURSIVE Depth(_)
Depth(v) ==
    CASE v[1] = "dict" -> 1 + Max({Depth(v[2][key]) : key \in DOMAIN v[2]})
      [] v[1] = "list" -> Max({Depth(v[2][i]) : i \in DOMAIN v[2]})
      [] OTHER -> 0

\* C10: no walk runs out of stack, and a returned mapping nests no deeper than
\* the number of classes its class leads to.
C10_WalkFinishes ==
    Called =>
        /\ result # Raise("RecursionError")
        /\ Returned => Depth(result) <= Cardinality(Reachable(klass))

====
